---- MODULE Spec2Model ----
(***************************************************************************)
(* Model of the WHEP benchmark: the orchestrator BenchRunner::bootstrap    *)
(* (src/src/bench.rs), the session task it spawns per client, and the      *)
(* WhepClient it drives (src/src/whep.rs).                                 *)
(*                                                                         *)
(* Time is kept in whole milliseconds by saturating timers that the Tick   *)
(* action advances together: the code only ever compares an elapsed time   *)
(* with a fixed duration, so a timer may stop counting once it is past     *)
(* that duration.                                                          *)
(*                                                                         *)
(* The transport engine (str0m Rtc), the UDP socket and the HTTP server    *)
(* are the environment: every output or result they can hand to the code   *)
(* is a nondeterministic choice.  A panic (a failed .expect, a division by *)
(* zero) unwinds the task it happens in; the task is dropped without       *)
(* running the rest of its body.  The receiving end of the event channel   *)
(* is held for the whole run (src/src/main.rs:45-57), so a send succeeds.  *)
(***************************************************************************)
EXTENDS Integers, Sequences, FiniteSets, TLC

\* ---------------------------------------------------------------- bounds
PlanCount == 2      \* plan.count of the run
PlanInterval == 1   \* plan.interval of the run (ms)
PlanLive == 1       \* plan.live of the run (ms)
MaxWait == 2        \* largest engine deadline, ms ahead of now
MaxReported == 2    \* Connected and Stats events one session reports
MaxEvents == 4      \* events the dashboard consumes
MaxVer == 2         \* largest render version followed

Ids == 1..PlanCount

\* Arithmetic of the saturating timers.
Min(a, b) == IF a < b THEN a ELSE b
Max(a, b) == IF a > b THEN a ELSE b

VARIABLES
    urlValid,       \* whether url::Url::parse accepts the --url argument
    count,          \* BenchRunner.count
    rpc,            \* where bootstrap is: "run", "sleep", "done"
    sleepLeft,      \* ms left of bootstrap's task::sleep(plan.interval)
    sinceConnecting,\* ms since the last Connecting was sent (saturating)
    sinceFirst,     \* ms since the first Connecting was sent (saturating)
    events,         \* everything sent on event_tx, in channel order
    pc,             \* per session task: where it is
    exit,           \* per session task: how it ended
    location,       \* WhepClient.location: "None" or "Some"
    live_at,        \* WhepClient.live_at: "None" or "Some"
    liveAtWrites,   \* number of assignments to live_at
    prepared,       \* what client.prepare() returned, "none" before it has
    elapsed,        \* started.elapsed() in ms (saturating past plan.live)
    preElapsed,     \* pre_ts.elapsed().as_millis() (saturating at 1)
    waitLeft,       \* ms left until the engine deadline recv waits for
    deletes,        \* HTTP DELETE requests issued for the session
    \* One WhepClient in full detail, driven call by call (ClientSpec):
    cenv,           \* the --url argument and the build profile
    cnow,           \* Instant::now(), in ms
    cl,             \* the WhepClient: its fields, alive until dropped
    ccall,          \* the last call: method, inputs, client before, return
    chttp,          \* the HTTP requests the client has issued, and
                    \* whether the POST was answered and accepted
    \* The dashboard's consumer of the event channel (DashSpec):
    received,       \* the events rx.recv() has returned, in order
    clients,        \* AppState.clients
    has_update,     \* the loop's has_update flag
    ver,            \* the render version
    uipc            \* where the consumer is: "loop" or "stopped"

\* The run of the benchmark: bootstrap and its session tasks.
runVars == <<urlValid, count, rpc, sleepLeft, sinceConnecting, sinceFirst,
             events, pc, exit, location, live_at, liveAtWrites, prepared,
             elapsed, preElapsed, waitLeft, deletes>>

\* The single client of ClientSpec.
clientDetail == <<cenv, cnow, cl, ccall, chttp>>

\* The dashboard of DashSpec.
dashVars == <<received, clients, has_update, ver, uipc>>

vars == <<runVars, clientDetail, dashVars>>

\* What no step of the run changes.
fixedVars == <<urlValid, clientDetail, dashVars>>

\* The fields of the client that only prepare and recv write.
clientVars == <<live_at, liveAtWrites, prepared>>

\* BenchPlan, as BenchRunner::new receives it.
plan == [count |-> PlanCount, interval |-> PlanInterval, live |-> PlanLive]
runnerVars == <<count, rpc, sleepLeft>>
clockVars == <<elapsed, preElapsed, waitLeft>>

\* ------------------------------------------------------------ BenchEvent
Connecting(id) == <<"Connecting", id>>
ConnectedEv(id) == <<"Connected", id>>
StatsEv(id) == <<"Stats", id>>
Disconnected(id) == <<"Disconnected", id>>

\* event_tx.send(ev): the channel is unbounded, the send completes at once.
Send(ev) == events' = Append(events, ev)

\* ----------------------------------------------------------------- Init
\* Nothing is spawned yet.
RunIdle ==
    /\ count = 0
    /\ rpc = "run"
    /\ sleepLeft = 0
    /\ sinceConnecting = 0
    /\ sinceFirst = 0
    /\ events = <<>>
    /\ pc = [i \in Ids |-> "unspawned"]
    /\ exit = [i \in Ids |-> "none"]
    /\ location = [i \in Ids |-> "None"]
    /\ live_at = [i \in Ids |-> "None"]
    /\ liveAtWrites = [i \in Ids |-> 0]
    /\ prepared = [i \in Ids |-> "none"]
    /\ elapsed = [i \in Ids |-> 0]
    /\ preElapsed = [i \in Ids |-> 0]
    /\ waitLeft = [i \in Ids |-> 0]
    /\ deletes = [i \in Ids |-> 0]

\* The detailed client is not in use.
ClientIdle ==
    /\ cenv = [url |-> [scheme |-> "", host |-> "", port |-> "", path |-> ""],
               overflowChecks |-> FALSE]
    /\ cnow = 0
    /\ cl = [alive |-> FALSE]
    /\ ccall = [op |-> "none"]
    /\ chttp = [posts |-> 0, deletes |-> 0, answered |-> FALSE]

\* The dashboard has consumed nothing: AppState::default().
DashIdle ==
    /\ received = <<>>
    /\ clients = <<>>
    /\ has_update = FALSE
    /\ ver = 0
    /\ uipc = "loop"

Init ==
    /\ urlValid \in BOOLEAN
    /\ RunIdle
    /\ ClientIdle
    /\ DashIdle

\* ------------------------------------------------- BenchRunner::bootstrap
\* One pass of the while loop up to the sleep: the next id, the Connecting
\* event, the spawn of the session task, the start of the interval sleep.
BootstrapIter ==
    /\ rpc = "run"
    /\ count < plan.count
    /\ count' = count + 1
    /\ Send(Connecting(count + 1))
    /\ pc' = [pc EXCEPT ![count + 1] = "start"]
    /\ rpc' = "sleep"
    /\ sleepLeft' = plan.interval
    /\ sinceConnecting' = 0
    /\ sinceFirst' = IF count = 0 THEN 0 ELSE sinceFirst
    /\ UNCHANGED <<fixedVars, exit, location, clientVars, clockVars, deletes>>

\* A bootstrap that does not wait for its sleep.
SleepSkipped == TRUE

\* A bootstrap that also joins the sessions it has spawned.
SleepAndJoin == sleepLeft = 0 /\ \A i \in 1..count : pc[i] = "ended"

\* task::sleep(plan.interval) is over: back to the loop condition.
SleepOver == sleepLeft = 0

BootstrapWake ==
    /\ rpc = "sleep"
    /\ SleepOver
    /\ rpc' = "run"
    /\ UNCHANGED <<fixedVars, count, sleepLeft, sinceConnecting, sinceFirst,
                   events, pc, exit, location, clientVars, clockVars,
                   deletes>>

\* The loop condition fails: "[BenchRunner] done", bootstrap returns.
BootstrapDone ==
    /\ rpc = "run"
    /\ ~(count < plan.count)
    /\ rpc' = "done"
    /\ UNCHANGED <<fixedVars, count, sleepLeft, sinceConnecting, sinceFirst,
                   events, pc, exit, location, clientVars, clockVars,
                   deletes>>

\* ------------------------------------------------------ the session task
\* The task of session i is over: its client (socket, engine, timers) is
\* dropped.  location, live_at and deletes keep their last value so that
\* the way the session ended can be read off the state.
EndTask(i, how) ==
    /\ pc' = [pc EXCEPT ![i] = "ended"]
    /\ exit' = [exit EXCEPT ![i] = how]
    /\ elapsed' = [elapsed EXCEPT ![i] = 0]
    /\ preElapsed' = [preElapsed EXCEPT ![i] = 0]
    /\ waitLeft' = [waitLeft EXCEPT ![i] = 0]

\* A panic that takes the whole process down instead of the one task.
PanicAbortsAll(i, how) ==
    /\ EndTask(i, how)
    /\ rpc' = "done"
    /\ UNCHANGED <<events, count, sleepLeft>>

\* A panic inside the spawned task (a failed .expect, a division by zero):
\* the task unwinds, nothing after the panicking expression runs.  The
\* other tasks and bootstrap are untouched.
Panic(i, how) ==
    /\ EndTask(i, how)
    /\ UNCHANGED <<events, runnerVars>>

\* A break out of the loop: the task sends Disconnected(i) and finishes.
Break(i, how) ==
    /\ EndTask(i, how)
    /\ Send(Disconnected(i))
    /\ UNCHANGED runnerVars

\* WhepClient::new(&url, &token).expect("should create whep client")
StartTask(i) ==
    /\ pc[i] = "start"
    /\ \E bindOk \in BOOLEAN :
         IF ~bindOk
         THEN Panic(i, "panic_bind")
         ELSE IF ~urlValid
         THEN Panic(i, "panic_new")
         ELSE /\ pc' = [pc EXCEPT ![i] = "prepare"]
              /\ preElapsed' = [preElapsed EXCEPT ![i] = 0]
              /\ UNCHANGED <<events, runnerVars, exit, elapsed, waitLeft>>
    /\ UNCHANGED <<fixedVars, sinceConnecting, sinceFirst, location,
                   clientVars, deletes>>

\* What the signaling server can answer to the POST of prepare.
Responses ==
    [sendOk : BOOLEAN, textOk : BOOLEAN, sdpOk : BOOLEAN,
     hasLocation : BOOLEAN, locationIsStr : BOOLEAN, acceptOk : BOOLEAN]

\* A prepare that looks for the Location header before it parses the body.
PrepareLocationFirst(resp) ==
    IF ~resp.sendOk THEN [result |-> "ServerError", location |-> "None"]
    ELSE IF ~resp.textOk THEN [result |-> "ServerError", location |-> "None"]
    ELSE IF ~resp.hasLocation THEN [result |-> "ServerError", location |-> "None"]
    ELSE IF ~resp.locationIsStr THEN [result |-> "ServerError", location |-> "None"]
    ELSE IF ~resp.sdpOk THEN [result |-> "SdpError", location |-> "None"]
    ELSE IF ~resp.acceptOk THEN [result |-> "SdpError", location |-> "Some"]
    ELSE [result |-> "Ok", location |-> "Some"]

\* WhepClient::prepare: its result and the location it leaves in the client.
Prepare(resp) ==
    IF ~resp.sendOk THEN [result |-> "ServerError", location |-> "None"]
    ELSE IF ~resp.textOk THEN [result |-> "ServerError", location |-> "None"]
    ELSE IF ~resp.sdpOk THEN [result |-> "SdpError", location |-> "None"]
    ELSE IF ~resp.hasLocation THEN [result |-> "ServerError", location |-> "None"]
    ELSE IF ~resp.locationIsStr THEN [result |-> "ServerError", location |-> "None"]
    ELSE IF ~resp.acceptOk THEN [result |-> "SdpError", location |-> "Some"]
    ELSE [result |-> "Ok", location |-> "Some"]

\* client.prepare().await.expect("should connect"); started = Instant::now()
PrepareTask(i) ==
    /\ pc[i] = "prepare"
    /\ \E resp \in Responses :
         LET r == Prepare(resp) IN
         /\ location' = [location EXCEPT ![i] = r.location]
         /\ prepared' = [prepared EXCEPT ![i] = r.result]
         /\ IF r.result = "Ok"
            THEN /\ pc' = [pc EXCEPT ![i] = "loop"]
                 /\ elapsed' = [elapsed EXCEPT ![i] = 0]
                 /\ UNCHANGED <<events, runnerVars, exit, preElapsed, waitLeft>>
            ELSE Panic(i, "panic_prepare")
    /\ UNCHANGED <<fixedVars, sinceConnecting, sinceFirst, live_at, liveAtWrites,
                   deletes>>

\* started.elapsed() > live_time
Expired(i) == elapsed[i] > plan.live

\* The lifetime check at the top of the loop succeeds: client.disconnect()
\* takes the location and, if there was one, issues the DELETE.
LoopExpired(i) ==
    /\ pc[i] = "loop"
    /\ Expired(i)
    /\ IF location[i] = "Some"
       THEN /\ location' = [location EXCEPT ![i] = "None"]
            /\ deletes' = [deletes EXCEPT ![i] = @ + 1]
            /\ pc' = [pc EXCEPT ![i] = "disconnect"]
            /\ UNCHANGED <<events, runnerVars, exit, clockVars>>
       ELSE /\ Break(i, "expired")
            /\ UNCHANGED <<location, deletes>>
    /\ UNCHANGED <<fixedVars, sinceConnecting, sinceFirst, clientVars>>

\* The DELETE has completed: .expect("should disconnect"), then break.
DisconnectDone(i) ==
    /\ pc[i] = "disconnect"
    /\ \E deleteOk \in BOOLEAN :
         IF deleteOk THEN Break(i, "expired") ELSE Panic(i, "panic_disconnect")
    /\ UNCHANGED <<fixedVars, sinceConnecting, sinceFirst, location,
                   clientVars, deletes>>

\* ------------------------------------------------------ WhepClient::recv
\* The task is at the top of its loop with its lifetime not yet over, so it
\* calls client.recv(), which polls the engine.
AtRecv(i) == pc[i] = "loop" /\ ~Expired(i)

\* The Connected and Stats events session i has sent so far.
Reported(i) ==
    Cardinality({k \in 1..Len(events) :
                    events[k] \in {ConnectedEv(i), StatsEv(i)}})

\* The engine hands out a Connected or a PeerStats event.
CanReport(i) == AtRecv(i) /\ Reported(i) < MaxReported

\* rtc.poll_output() fails: recv returns Err(WebrtcError), the task breaks.
RecvPollErr(i) ==
    /\ AtRecv(i)
    /\ Break(i, "webrtc_err")
    /\ UNCHANGED <<fixedVars, sinceConnecting, sinceFirst, location,
                   clientVars, deletes>>

\* Event::Connected: live_at is set, recv returns WhepEvent::Connected and
\* the task sends BenchEvent::Connected.
RecvConnected(i) ==
    /\ CanReport(i)
    /\ live_at' = [live_at EXCEPT ![i] = "Some"]
    /\ liveAtWrites' = [liveAtWrites EXCEPT ![i] = @ + 1]
    /\ Send(ConnectedEv(i))
    /\ UNCHANGED <<fixedVars, runnerVars, sinceConnecting, sinceFirst, pc,
                   exit, location, prepared, clockVars, deletes>>

\* Event::IceConnectionStateChange(Disconnected): recv returns
\* WhepEvent::Disconnected and the task breaks.
RecvIceDisconnected(i) ==
    /\ AtRecv(i)
    /\ Break(i, "ice_disconnected")
    /\ UNCHANGED <<fixedVars, sinceConnecting, sinceFirst, location,
                   clientVars, deletes>>

\* The outputs recv answers with WhepEvent::Continue: another ICE state,
\* MediaIngressStats, RtpPacket, any other event, and Output::Transmit
\* whether or not the socket send succeeds.
ContinueOutputs ==
    {"IceOther", "MediaIngressStats", "RtpPacket", "OtherEvent",
     "TransmitSent", "TransmitFailed"}

RecvContinue(i) ==
    /\ AtRecv(i)
    /\ \E out \in ContinueOutputs : TRUE
    /\ UNCHANGED vars

\* Event::PeerStats: the rates are divided by the milliseconds since pre_ts,
\* an integer division that panics when that is zero; otherwise pre_ts is
\* reset, recv returns WhepEvent::Stats and the task sends BenchEvent::Stats.
RecvPeerStats(i) ==
    /\ CanReport(i)
    /\ IF preElapsed[i] = 0
       THEN Panic(i, "panic_stats")
       ELSE /\ preElapsed' = [preElapsed EXCEPT ![i] = 0]
            /\ Send(StatsEv(i))
            /\ UNCHANGED <<runnerVars, pc, exit, elapsed, waitLeft>>
    /\ UNCHANGED <<fixedVars, sinceConnecting, sinceFirst, location,
                   clientVars, deletes>>

\* Output::Timeout with a deadline that is not in the future: the Timeout
\* input is fed at once and recv returns Continue whatever the engine says.
RecvTimeoutNow(i) ==
    /\ AtRecv(i)
    /\ \E handleOk \in BOOLEAN : TRUE
    /\ UNCHANGED vars

\* Output::Timeout with a deadline d ms ahead: recv suspends in
\* socket.recv_sas(..).timeout(duration).
RecvTimeoutWait(i) ==
    /\ AtRecv(i)
    /\ \E d \in 1..MaxWait : waitLeft' = [waitLeft EXCEPT ![i] = d]
    /\ pc' = [pc EXCEPT ![i] = "wait"]
    /\ UNCHANGED <<fixedVars, runnerVars, sinceConnecting, sinceFirst, events,
                   exit, location, clientVars, elapsed, preElapsed, deletes>>

\* rtc.handle_input(input) after the wait: Ok gives Continue, an error
\* gives Err(WebrtcError) and the task breaks.
AfterWait(i, handleOk) ==
    IF handleOk
    THEN /\ pc' = [pc EXCEPT ![i] = "loop"]
         /\ waitLeft' = [waitLeft EXCEPT ![i] = 0]
         /\ UNCHANGED <<events, runnerVars, exit, elapsed, preElapsed>>
    ELSE Break(i, "webrtc_err")

\* A datagram arrives before the deadline: Input::Receive.
WaitDatagram(i) ==
    /\ pc[i] = "wait"
    /\ \E handleOk \in BOOLEAN : AfterWait(i, handleOk)
    /\ UNCHANGED <<fixedVars, sinceConnecting, sinceFirst, location,
                   clientVars, deletes>>

\* A socket failure taken for a timeout: the loop goes on.
SocketErrRetried(i) ==
    /\ pc[i] = "wait"
    /\ AfterWait(i, TRUE)
    /\ UNCHANGED <<fixedVars, sinceConnecting, sinceFirst, location,
                   clientVars, deletes>>

\* The socket fails: recv returns Err(NetworkError) and the task breaks.
WaitSocketErr(i) ==
    /\ pc[i] = "wait"
    /\ Break(i, "network_err")
    /\ UNCHANGED <<fixedVars, sinceConnecting, sinceFirst, location,
                   clientVars, deletes>>

\* The deadline passes with nothing received: Input::Timeout.
WaitTimeout(i) ==
    /\ pc[i] = "wait"
    /\ waitLeft[i] = 0
    /\ \E handleOk \in BOOLEAN : AfterWait(i, handleOk)
    /\ UNCHANGED <<fixedVars, sinceConnecting, sinceFirst, location,
                   clientVars, deletes>>

\* ----------------------------------------------------------------- time
\* One millisecond passes for bootstrap's sleep and for every live client.
HasClient(i) == pc[i] \in {"prepare", "loop", "wait", "disconnect"}
HasStarted(i) == pc[i] \in {"loop", "wait", "disconnect"}

Tick ==
    /\ sleepLeft' = Max(0, sleepLeft - 1)
    /\ sinceConnecting' =
         IF count = 0 THEN 0 ELSE Min(plan.interval, sinceConnecting + 1)
    /\ sinceFirst' =
         IF count = 0 THEN 0
         ELSE Min((plan.count - 1) * plan.interval, sinceFirst + 1)
    /\ elapsed' = [i \in Ids |->
         IF HasStarted(i) THEN Min(plan.live + 1, elapsed[i] + 1) ELSE elapsed[i]]
    /\ preElapsed' = [i \in Ids |->
         IF HasClient(i) THEN Min(1, preElapsed[i] + 1) ELSE preElapsed[i]]
    /\ waitLeft' = [i \in Ids |-> Max(0, waitLeft[i] - 1)]
    /\ UNCHANGED <<fixedVars, count, rpc, events, pc, exit, location,
                   clientVars, deletes>>

\* -------------------------------------------------------- specifications
Bootstrap == BootstrapIter \/ BootstrapWake \/ BootstrapDone

Session(i) ==
    \/ StartTask(i)
    \/ PrepareTask(i)
    \/ LoopExpired(i)
    \/ DisconnectDone(i)
    \/ RecvPollErr(i)
    \/ RecvConnected(i)
    \/ RecvIceDisconnected(i)
    \/ RecvContinue(i)
    \/ RecvPeerStats(i)
    \/ RecvTimeoutNow(i)
    \/ RecvTimeoutWait(i)
    \/ WaitDatagram(i)
    \/ WaitSocketErr(i)
    \/ WaitTimeout(i)

Next == Bootstrap \/ (\E i \in Ids : Session(i)) \/ Tick

Spec == Init /\ [][Next]_vars

\* The executor runs every task that can run, and time passes.
FairSpec ==
    /\ Spec
    /\ WF_vars(Bootstrap)
    /\ \A i \in Ids : WF_vars(Session(i))
    /\ WF_vars(Tick)

\* ============================================================ one client
\* The methods of WhepClient as functions of the client's fields and of what
\* the environment hands them.  A text (a URL, a Location header) is the
\* sequence of its parts; the empty sequence stands for None.

\* --------------------------------------------------------- url::Url::parse
\* The port a scheme implies.
DefaultPort(scheme) == IF scheme = "https" THEN "443" ELSE "80"

\* url::Url::parse(url): an input without a scheme is rejected; the port is
\* dropped when it is the scheme's default.
ParseUrl(raw) ==
    IF raw.scheme = ""
    THEN [ok |-> FALSE, url |-> raw]
    ELSE [ok |-> TRUE,
          url |-> [raw EXCEPT !.port =
                     IF raw.port = DefaultPort(raw.scheme) THEN "" ELSE raw.port]]

\* parse_url.origin().ascii_serialization(): scheme://host[:port]
Origin(u) ==
    <<u.scheme, "://", u.host>> \o (IF u.port = "" THEN <<>> ELSE <<":", u.port>>)

\* A resolution that prepends the whole target URL instead of its origin.
ResolveAgainstUrl(u, loc) ==
    IF Len(loc) > 0 /\ loc[1] = "/"
    THEN Origin(u) \o <<u.path>> \o loc
    ELSE loc

\* whep.rs:150-158: a location that starts with "/" is appended to the
\* origin of the target URL, any other is used as it is.
ResolveLocation(u, loc) ==
    IF Len(loc) > 0 /\ loc[1] = "/"
    THEN Origin(u) \o loc
    ELSE loc

\* ----------------------------------------------------- WhepClient::new
\* The client right after WhepClient::new at instant now.
NewClient(u, now) ==
    [alive |-> TRUE, parse_url |-> u, location |-> <<>>, live_at |-> -1,
     rtt |-> 0, pre_ts |-> now, pre_send_bytes |-> 0, pre_recv_bytes |-> 0]

\* ------------------------------------------------- WhepClient::prepare
\* prepare on client c, the server answering resp with Location header loc.
PrepareClient(c, resp, loc) ==
    LET r == Prepare(resp) IN
    [ret |-> [tag |-> IF r.result = "Ok" THEN "Ok" ELSE "Err", val |-> r.result],
     client |-> IF r.location = "Some"
                THEN [c EXCEPT !.location = ResolveLocation(c.parse_url, loc)]
                ELSE c]

\* ---------------------------------------------- WhepClient::disconnect
\* A disconnect that forgets the location only when the DELETE succeeded.
DisconnectKeepsOnError(c, deleteOk) ==
    IF c.location # <<>>
    THEN [request |-> TRUE,
          ret |-> IF deleteOk THEN [tag |-> "Ok", val |-> "()"]
                  ELSE [tag |-> "Err", val |-> "ServerError"],
          client |-> IF deleteOk THEN [c EXCEPT !.location = <<>>] ELSE c]
    ELSE [request |-> FALSE, ret |-> [tag |-> "Ok", val |-> "()"], client |-> c]

\* disconnect on client c, the DELETE (if one is sent) succeeding or not:
\* location.take(), then the request.
Disconnect(c, deleteOk) ==
    IF c.location # <<>>
    THEN [request |-> TRUE,
          ret |-> IF deleteOk THEN [tag |-> "Ok", val |-> "()"]
                  ELSE [tag |-> "Err", val |-> "ServerError"],
          client |-> [c EXCEPT !.location = <<>>]]
    ELSE [request |-> FALSE, ret |-> [tag |-> "Ok", val |-> "()"], client |-> c]

\* ---------------------------------------------------- WhepClient::recv
\* What one call of recv can meet: the output the engine polls, and for each
\* output the values the branch reads.  rtt and loss are Option<f32>, given
\* in tenths with -1 for None; d is the time left to the engine's deadline;
\* wait is how the socket wait ends.
NoInput ==
    [out |-> "", tx |-> 0, rx |-> 0, rtt |-> -1, loss |-> -1, sendOk |-> TRUE,
     d |-> 0, wait |-> "", handleOk |-> TRUE]

RecvInputs ==
    {[NoInput EXCEPT !.out = o] :
        o \in {"PollErr", "Connected", "IceDisconnected", "IceOther",
               "RtpPacket", "OtherEvent"}}
    \cup {[NoInput EXCEPT !.out = "MediaIngressStats", !.rtt = r] :
            r \in {-1, 507}}
    \cup {[NoInput EXCEPT !.out = "PeerStats", !.tx = t, !.rx = r, !.loss = l] :
            t \in {0, 100, 900}, r \in {0, 100}, l \in {-1, 5}}
    \cup {[NoInput EXCEPT !.out = "Transmit", !.sendOk = ok] : ok \in BOOLEAN}
    \cup {[NoInput EXCEPT !.out = "Timeout", !.handleOk = ok] : ok \in BOOLEAN}
    \cup {[NoInput EXCEPT !.out = "Timeout", !.d = 1, !.wait = w,
                          !.handleOk = ok] :
            w \in {"datagram", "socket_err", "timeout"}, ok \in BOOLEAN}

\* What a call returns: Ok(value), Err(error), or a panic inside the call.
Ok(v) == [tag |-> "Ok", val |-> v]
Err(e) == [tag |-> "Err", val |-> e]
Panicked(why) == [tag |-> "Panic", val |-> why]

\* Option<f32>::unwrap_or(0.0) as u32, on a value given in tenths.
AsU32(tenths) == IF tenths < 0 THEN 0 ELSE tenths \div 10

\* A rate in bytes per millisecond: the factor 8 left out.
KbpsBytes(cur, prev, duration, overflowChecks) ==
    IF cur < prev
    THEN IF overflowChecks THEN [tag |-> "panic", value |-> 0]
         ELSE IF duration = 0 THEN [tag |-> "panic", value |-> 0]
         ELSE [tag |-> "wrapped", value |-> prev - cur]
    ELSE IF duration = 0 THEN [tag |-> "panic", value |-> 0]
    ELSE [tag |-> "ok", value |-> (cur - prev) \div duration]

\* whep.rs:203-204: ((cur - prev) * 8) / duration on u64.  cur < prev makes
\* the subtraction overflow: a panic where overflow checks are compiled in,
\* a wrap-around where they are not; the wrapped rate is
\* (2^64 - value) / duration, kept as the tag "wrapped" and that value.
\* duration = 0 makes the division panic in every build.
Kbps(cur, prev, duration, overflowChecks) ==
    IF cur < prev
    THEN IF overflowChecks THEN [tag |-> "panic", value |-> 0]
         ELSE IF duration = 0 THEN [tag |-> "panic", value |-> 0]
         ELSE [tag |-> "wrapped", value |-> (prev - cur) * 8]
    ELSE IF duration = 0 THEN [tag |-> "panic", value |-> 0]
    ELSE [tag |-> "ok", value |-> ((cur - prev) * 8) \div duration]

\* Event::PeerStats at instant now (whep.rs:199-218).
OnPeerStats(c, in, now, overflowChecks) ==
    LET duration == now - c.pre_ts
        send_kbps == Kbps(in.tx, c.pre_send_bytes, duration, overflowChecks)
        recv_kbps == Kbps(in.rx, c.pre_recv_bytes, duration, overflowChecks)
    IN  IF send_kbps.tag = "panic" \/ recv_kbps.tag = "panic"
        THEN [ret |-> Panicked("arithmetic"),
              client |-> [c EXCEPT !.alive = FALSE]]
        ELSE [ret |-> [tag |-> "Ok", val |-> "Stats",
                       stats |-> [send_kbps |-> send_kbps,
                                  recv_kbps |-> recv_kbps,
                                  lost |-> IF in.loss < 0 THEN 0 ELSE in.loss,
                                  live_ms |-> IF c.live_at < 0 THEN 0
                                              ELSE now - c.live_at,
                                  rtt_ms |-> c.rtt]],
              client |-> [c EXCEPT !.pre_ts = now,
                                   !.pre_send_bytes = in.tx,
                                   !.pre_recv_bytes = in.rx]]

\* A send failure that ends the call with an error.
OnTransmitFatal(sendOk) == IF sendOk THEN Ok("Continue") ELSE Err("NetworkError")

\* Output::Transmit (whep.rs:228-243): a send error is logged, no more.
OnTransmit(sendOk) == Ok("Continue")

\* Output::Timeout with the deadline already passed (whep.rs:247-256): both
\* arms of the match on handle_input return Ok(Continue).
OnTimeoutNow(handleOk) == IF handleOk THEN Ok("Continue") ELSE Ok("Continue")

\* Output::Timeout with time left (whep.rs:258-287): the wait, then
\* handle_input on what the wait produced.
OnTimeoutWait(wait, handleOk) ==
    IF wait = "socket_err" THEN Err("NetworkError")
    ELSE IF ~handleOk THEN Err("WebrtcError")
    ELSE Ok("Continue")

\* recv on client c at instant now, meeting in.
Recv(c, in, now, overflowChecks) ==
    CASE in.out = "PollErr" -> [ret |-> Err("WebrtcError"), client |-> c]
      [] in.out = "Connected" ->
            [ret |-> Ok("Connected"), client |-> [c EXCEPT !.live_at = now]]
      [] in.out = "IceDisconnected" ->
            [ret |-> Ok("Disconnected"), client |-> c]
      [] in.out = "MediaIngressStats" ->
            [ret |-> Ok("Continue"), client |-> [c EXCEPT !.rtt = AsU32(in.rtt)]]
      [] in.out = "PeerStats" -> OnPeerStats(c, in, now, overflowChecks)
      [] in.out = "Transmit" -> [ret |-> OnTransmit(in.sendOk), client |-> c]
      [] in.out = "Timeout" /\ in.d = 0 ->
            [ret |-> OnTimeoutNow(in.handleOk), client |-> c]
      [] in.out = "Timeout" /\ in.d > 0 ->
            [ret |-> OnTimeoutWait(in.wait, in.handleOk), client |-> c]
      [] OTHER -> [ret |-> Ok("Continue"), client |-> c]

\* The session task's match on what recv returned (bench.rs:62-88).
TaskReact(ret) ==
    IF ret.tag = "Panic" THEN "unwind"
    ELSE IF ret.tag = "Err" THEN "break"
    ELSE IF ret.val = "Connected" THEN "send Connected"
    ELSE IF ret.val = "Disconnected" THEN "break"
    ELSE IF ret.val = "Stats" THEN "send Stats"
    ELSE "continue"

\* ------------------------------------------ one client, method by method
\* A caller drives the public methods of one WhepClient: new, prepare once,
\* then recv and disconnect in any order, while time passes.  ccall keeps
\* the last call: its input, the client before it and what it returned.

\* The instants (ms) at which the caller acts.
Instants == {0, 1, 1001}

\* The target URLs given on the command line; the last one has no scheme.
RawUrls ==
    {[scheme |-> "http", host |-> "host", port |-> "8080", path |-> "/whep"],
     [scheme |-> "http", host |-> "host", port |-> "80", path |-> "/whep"],
     [scheme |-> "", host |-> "host", port |-> "", path |-> "/whep"]}

\* The Location headers a server can answer with: a path, an absolute URL,
\* a reference without a leading slash.
LocationHeaders ==
    {<<"/", "resource/42">>, <<"http://other:9000/r/1">>, <<"resource/42">>}

ClientInit ==
    /\ RunIdle
    /\ DashIdle
    /\ cenv \in [url : RawUrls, overflowChecks : BOOLEAN]
    /\ urlValid = ParseUrl(cenv.url).ok
    /\ cnow = 0
    /\ cl = [alive |-> FALSE]
    /\ ccall = [op |-> "none"]
    /\ chttp = [posts |-> 0, deletes |-> 0, answered |-> FALSE]

\* WhepClient::new(url, token)
CNew ==
    /\ ccall.op = "none"
    /\ LET u == ParseUrl(cenv.url) IN
         /\ cl' = IF u.ok THEN NewClient(u.url, cnow) ELSE cl
         /\ ccall' = [op |-> "new",
                      ret |-> IF u.ok THEN Ok("client") ELSE Err("UrlError")]
    /\ UNCHANGED <<runVars, dashVars, cenv, cnow, chttp>>

\* client.prepare()
CPrepare ==
    /\ cl.alive
    /\ chttp.posts = 0
    /\ \E resp \in Responses, loc \in LocationHeaders :
         LET r == PrepareClient(cl, resp, loc) IN
           /\ cl' = r.client
           /\ ccall' = [op |-> "prepare", resp |-> resp, loc |-> loc,
                        before |-> cl, ret |-> r.ret]
           /\ chttp' = [chttp EXCEPT !.posts = @ + 1,
                                     !.answered = (r.ret.tag = "Ok")]
    /\ UNCHANGED <<runVars, dashVars, cenv, cnow>>

\* client.disconnect()
CDisconnect ==
    /\ cl.alive
    /\ chttp.posts = 1
    /\ \E deleteOk \in BOOLEAN :
         LET r == Disconnect(cl, deleteOk) IN
           /\ cl' = r.client
           /\ ccall' = [op |-> "disconnect", deleteOk |-> deleteOk,
                        request |-> r.request, before |-> cl, ret |-> r.ret]
           /\ chttp' = [chttp EXCEPT !.deletes = @ + (IF r.request THEN 1 ELSE 0)]
    /\ UNCHANGED <<runVars, dashVars, cenv, cnow>>

\* client.recv(), on a client whose prepare returned Ok
CRecv ==
    /\ cl.alive
    /\ chttp.answered
    /\ \E in \in RecvInputs :
         LET r == Recv(cl, in, cnow, cenv.overflowChecks) IN
           /\ cl' = r.client
           /\ ccall' = [op |-> "recv", in |-> in, at |-> cnow,
                        before |-> cl, ret |-> r.ret]
    /\ UNCHANGED <<runVars, dashVars, cenv, cnow, chttp>>

\* Time passes between two calls.
CTick ==
    /\ \E t \in Instants : t > cnow /\ cnow' = t
    /\ UNCHANGED <<runVars, dashVars, cenv, cl, ccall, chttp>>

ClientNext == CNew \/ CPrepare \/ CDisconnect \/ CRecv \/ CTick

ClientSpec == ClientInit /\ [][ClientNext]_vars

\* ============================================================ dashboard
\* AppState of tui.rs and the loop that feeds it from the event channel.
\* clients is the BTreeMap as a function on its keys; Option<Stats> is the
\* empty sequence for None and a one-element sequence for Some.

\* The ids and the Stats payloads (send_kbps) the channel can carry.
DashIds == {1, 2}
StatsValues == {6, 800}

\* BenchEvent::Stats(id, stats), with its payload.
StatsWith(id, stats) == <<"Stats", id, stats>>

\* What rx.recv() can return with Ok.
BenchEvents ==
    {Connecting(i) : i \in DashIds} \cup {ConnectedEv(i) : i \in DashIds}
    \cup {Disconnected(i) : i \in DashIds}
    \cup {StatsWith(i, v) : i \in DashIds, v \in StatsValues}

\* Client { id, ..Default::default() }
DefaultClient(id) == [id |-> id, connected |-> FALSE, stats |-> <<>>]

\* AppState::add_client: insert, replacing an entry of the same id.
add_client(st, id) ==
    [i \in (DOMAIN st) \cup {id} |-> IF i = id THEN DefaultClient(id) ELSE st[i]]

\* A set_client_connected that creates the entry when it is missing.
set_client_connected_upsert(st, id) ==
    [i \in (DOMAIN st) \cup {id} |->
        IF i = id THEN [id |-> id, connected |-> TRUE,
                        stats |-> IF id \in DOMAIN st THEN st[id].stats ELSE <<>>]
        ELSE st[i]]

\* AppState::set_client_connected
set_client_connected(st, id) ==
    IF id \in DOMAIN st THEN [st EXCEPT ![id].connected = TRUE] ELSE st

\* AppState::set_client_stats
set_client_stats(st, id, stats) ==
    IF id \in DOMAIN st THEN [st EXCEPT ![id].stats = <<stats>>] ELSE st

\* AppState::remove_client
remove_client(st, id) == [i \in (DOMAIN st) \ {id} |-> st[i]]

\* AppState::clients_sum
clients_sum(st) == Cardinality(DOMAIN st)

\* AppState::clients_connected
clients_connected(st) == Cardinality({i \in DOMAIN st : st[i].connected})

\* The match on the received event (tui.rs:102-114).
Consume(st, ev) ==
    CASE ev[1] = "Connecting" -> add_client(st, ev[2])
      [] ev[1] = "Connected" -> set_client_connected(st, ev[2])
      [] ev[1] = "Stats" -> set_client_stats(st, ev[2], ev[3])
      [] ev[1] = "Disconnected" -> remove_client(st, ev[2])

\* The select! arm of rx.recv() returning Ok(ev).
UiRecv ==
    /\ uipc = "loop"
    /\ Len(received) < MaxEvents
    /\ \E ev \in BenchEvents :
         /\ received' = Append(received, ev)
         /\ clients' = Consume(clients, ev)
    /\ has_update' = TRUE
    /\ UNCHANGED <<runVars, clientDetail, ver, uipc>>

\* rx.recv() returns Err, every sender is gone: break.
UiRecvClosed ==
    /\ uipc = "loop"
    /\ uipc' = "stopped"
    /\ UNCHANGED <<runVars, clientDetail, received, clients, has_update, ver>>

\* The select! arm of the 300 ms tick.
UiTick ==
    /\ uipc = "loop"
    /\ has_update => ver < MaxVer
    /\ ver' = IF has_update THEN ver + 1 ELSE ver
    /\ UNCHANGED <<runVars, clientDetail, received, clients, has_update, uipc>>

DashNext == UiRecv \/ UiRecvClosed \/ UiTick

DashSpec == Init /\ [][DashNext]_vars

\* ------------------------------------------------- reading the event stream
CountEv(ev) == Cardinality({k \in 1..Len(events) : events[k] = ev})

\* The events of session i, in stream order, and their kinds.
EventsOf(i) == SelectSeq(events, LAMBDA e : e[2] = i)
KindsOf(i) == [k \in 1..Len(EventsOf(i)) |-> EventsOf(i)[k][1]]

\* The ids of the Connecting events, in stream order.
ConnectingIds ==
    LET cs == SelectSeq(events, LAMBDA e : e[1] = "Connecting")
    IN  [k \in 1..Len(cs) |-> cs[k][2]]

Ended(i) == pc[i] = "ended"

Panics == {"panic_bind", "panic_new", "panic_prepare", "panic_stats",
           "panic_disconnect"}
Failures == Panics \cup {"webrtc_err", "network_err"}

\* Everything session j owns.
SessionView(j) ==
    <<pc[j], exit[j], location[j], live_at[j], liveAtWrites[j], prepared[j],
      elapsed[j], preElapsed[j], waitLeft[j], deletes[j], EventsOf(j)>>

\* ------------------------------------------------------------------ C1
\* C1: every session that has terminated, on whatever path, has exactly one
\* Connecting(id) and exactly one Disconnected(id) in the event stream.
C1_OneConnectingOneDisconnected ==
    \A i \in Ids :
        Ended(i) => /\ CountEv(Connecting(i)) = 1
                    /\ CountEv(Disconnected(i)) = 1

\* ------------------------------------------------------------------ C2
\* C2: the events of one id appear as Connecting, then Connected, then any
\* number of Stats, then Disconnected: Connecting is first and only first,
\* every Stats has a Connected before it and none after it, and nothing
\* follows Disconnected.
C2_PerIdOrder ==
    \A i \in Ids :
        LET ks == KindsOf(i) IN
        \A k \in 1..Len(ks) :
            /\ (ks[k] = "Connecting") <=> (k = 1)
            /\ ks[k] = "Stats" => \E j \in 1..(k - 1) : ks[j] = "Connected"
            /\ ks[k] = "Connected" => \A j \in 1..(k - 1) : ks[j] # "Stats"
            /\ ks[k] = "Disconnected" => k = Len(ks)

\* ------------------------------------------------------------------ C3
\* C3: a session that has emitted Disconnected(id) has torn down first: its
\* location was consumed by exactly one DELETE and is no longer set.
C3_TeardownBeforeDisconnected ==
    \A i \in Ids :
        CountEv(Disconnected(i)) > 0 =>
            /\ location[i] = "None"
            /\ deletes[i] = 1

\* ------------------------------------------------------------------ C4
\* C4: a session that has issued its teardown DELETE at lifetime expiry and
\* has terminated has emitted Disconnected(id), whatever the DELETE returned.
C4_TeardownFailureSwallowed ==
    \A i \in Ids :
        (Ended(i) /\ deletes[i] > 0) => CountEv(Disconnected(i)) = 1

\* ------------------------------------------------------------------ C5
\* C5: lifetime expiry interrupts a pending recv wait: a session whose
\* lifetime has elapsed while it is suspended in recv never has that wait
\* complete and hand control back to the drive loop.
C5_ExpiryInterruptsWait ==
    [][\A i \in Ids : (pc[i] = "wait" /\ Expired(i)) => pc'[i] # "loop"]_vars

\* ------------------------------------------------------------------ C6
\* C6: once the elapsed time of a negotiated session exceeds plan.live,
\* Disconnected(id) is eventually emitted.
C6_LifetimeEnforced ==
    \A i \in Ids :
        (pc[i] \in {"loop", "wait"} /\ Expired(i))
            ~> (CountEv(Disconnected(i)) = 1)

\* ------------------------------------------------------------------ C7
\* C7: the step in which a session fails (a panic in construction,
\* negotiation, statistics or teardown, or an error from recv) changes
\* nothing of bootstrap and nothing of any other session; and in every run
\* bootstrap finishes having emitted Connecting for every id of the plan,
\* every session terminates, and every session that did not panic has
\* emitted its Disconnected.
C7_FailureIsolated ==
    /\ [][\A i \in Ids :
            (exit[i] = "none" /\ exit'[i] \in Failures) =>
                /\ runnerVars' = runnerVars
                /\ \A j \in Ids \ {i} : SessionView(j)' = SessionView(j)]_vars
    /\ <>[](/\ rpc = "done"
            /\ count = plan.count
            /\ \A i \in Ids :
                 /\ CountEv(Connecting(i)) = 1
                 /\ Ended(i)
                 /\ exit[i] \notin Panics => CountEv(Disconnected(i)) = 1)

\* Bootstrap is done, session 1 died in negotiation and session 2 still ran
\* its lifetime and emitted Disconnected.
C7_Witness ==
    /\ rpc = "done"
    /\ exit[1] = "panic_prepare"
    /\ exit[2] = "expired"
    /\ CountEv(Connecting(2)) = 1
    /\ CountEv(Disconnected(2)) = 1

\* ------------------------------------------------------------------ C8
\* C8: the Connecting events carry the ids 1, 2, ..., count in that order,
\* each once, and never more than plan.count of them; when Connecting(k+1)
\* is sent, at least plan.interval has passed since Connecting(k) and at
\* least k * plan.interval since Connecting(1); and bootstrap terminates
\* with all plan.count sessions started.
C8_RampUp ==
    /\ [](/\ count <= plan.count
          /\ ConnectingIds = [k \in 1..count |-> k])
    /\ [][(count' = count + 1 /\ count >= 1) =>
            /\ sinceConnecting >= plan.interval
            /\ sinceFirst >= count * plan.interval]_vars
    /\ <>[](rpc = "done" /\ count = plan.count)

\* Bootstrap has returned after a ramp-up of at least two sessions.
C8_Witness ==
    /\ rpc = "done"
    /\ plan.count >= 2
    /\ ConnectingIds = [k \in 1..plan.count |-> k]

\* ------------------------------------------------------------------ C9
\* C9: for every session, Connected(id) is emitted at most once and live_at
\* is assigned at most once, whatever the engine outputs.
C9_ConnectedAtMostOnce ==
    \A i \in Ids :
        /\ CountEv(ConnectedEv(i)) <= 1
        /\ liveAtWrites[i] <= 1

\* ----------------------------------------------------------------- C10
\* C10: a session whose negotiation failed (prepare returned an error) has
\* the events Connecting(id), Disconnected(id) and nothing else, and no
\* DELETE was issued for it.
C10_NegotiationFailure ==
    \A i \in Ids :
        (Ended(i) /\ prepared[i] \in {"ServerError", "SdpError"}) =>
            /\ KindsOf(i) = <<"Connecting", "Disconnected">>
            /\ deletes[i] = 0

\* ----------------------------------------------------------------- C11
\* C11: disconnect issues a DELETE only if a location is set, leaves the
\* location cleared whether or not the DELETE succeeded, issues no request
\* and returns Ok when there is no location, and over any sequence of calls
\* at most one DELETE is issued.
C11_TeardownIdempotent ==
    /\ chttp.deletes <= 1
    /\ ccall.op = "disconnect" =>
         /\ ccall.request = (ccall.before.location # <<>>)
         /\ cl.location = <<>>
         /\ ~ccall.request => (ccall.ret = Ok("()") /\ cl = ccall.before)
         /\ (ccall.request /\ ~ccall.deleteOk) => ccall.ret = Err("ServerError")

\* A second disconnect, after the one that issued the DELETE.
C11_Witness ==
    /\ ccall.op = "disconnect"
    /\ chttp.deletes = 1
    /\ ~ccall.request
    /\ ccall.ret = Ok("()")

\* ----------------------------------------------------------------- C12
\* C12: a PeerStats event processed zero milliseconds after the previous
\* sample (counters not below the stored ones) makes recv return a Stats
\* event with defined rates; the call does not panic.
C12_ZeroElapsedDefined ==
    (/\ ccall.op = "recv"
     /\ ccall.in.out = "PeerStats"
     /\ ccall.at = ccall.before.pre_ts
     /\ ccall.in.tx >= ccall.before.pre_send_bytes
     /\ ccall.in.rx >= ccall.before.pre_recv_bytes) =>
        /\ ccall.ret.tag = "Ok"
        /\ ccall.ret.val = "Stats"
        /\ ccall.ret.stats.send_kbps.tag = "ok"
        /\ ccall.ret.stats.recv_kbps.tag = "ok"
        /\ cl.alive

\* ----------------------------------------------------------------- C13
\* C13 as stated: the rate is ((cur - prev) * 8) / elapsed, and the sample
\* 100 bytes then 900 bytes 1000 ms later is reported as 6400.
C13_SampleIs6400 ==
    (/\ ccall.op = "recv"
     /\ ccall.in.out = "PeerStats"
     /\ ccall.before.pre_send_bytes = 100
     /\ ccall.in.tx = 900
     /\ ccall.at - ccall.before.pre_ts = 1000
     /\ ccall.in.rx >= ccall.before.pre_recv_bytes) =>
        /\ ccall.ret.tag = "Ok"
        /\ ccall.ret.val = "Stats"
        /\ ccall.ret.stats.send_kbps = [tag |-> "ok", value |-> 6400]

\* C13, amended: for consecutive samples with elapsed > 0 ms and counters
\* not below the stored ones, the rates in the Stats event are
\* ((cur - prev) * 8) / elapsed in integer division; 100 bytes then 900
\* bytes 1000 ms later give 6400 / 1000 = 6.
C13_RateFormula ==
    /\ \A chk \in BOOLEAN : Kbps(900, 100, 1000, chk) = [tag |-> "ok", value |-> 6]
    /\ (/\ ccall.op = "recv"
        /\ ccall.in.out = "PeerStats"
        /\ ccall.at > ccall.before.pre_ts
        /\ ccall.in.tx >= ccall.before.pre_send_bytes
        /\ ccall.in.rx >= ccall.before.pre_recv_bytes) =>
          LET elapsedMillis == ccall.at - ccall.before.pre_ts IN
          /\ ccall.ret.tag = "Ok"
          /\ ccall.ret.val = "Stats"
          /\ ccall.ret.stats.send_kbps =
               [tag |-> "ok",
                value |-> ((ccall.in.tx - ccall.before.pre_send_bytes) * 8)
                              \div elapsedMillis]
          /\ ccall.ret.stats.recv_kbps =
               [tag |-> "ok",
                value |-> ((ccall.in.rx - ccall.before.pre_recv_bytes) * 8)
                              \div elapsedMillis]

\* The sample 100 bytes, then 900 bytes 1000 ms later, reported as 6.
C13_Witness ==
    /\ ccall.op = "recv"
    /\ ccall.in.out = "PeerStats"
    /\ ccall.before.pre_send_bytes = 100
    /\ ccall.in.tx = 900
    /\ ccall.at - ccall.before.pre_ts = 1000
    /\ ccall.ret.tag = "Ok"
    /\ ccall.ret.stats.send_kbps.value = 6

C15_EngineRejectionTerminal ==
    (/\ ccall.op = "recv"
     /\ \/ ccall.in.out = "PollErr"
        \/ /\ ccall.in.out = "Timeout"
           /\ ~ccall.in.handleOk
           /\ ccall.in.wait # "socket_err") =>
        /\ ccall.ret = Err("WebrtcError")
        /\ TaskReact(ccall.ret) = "break"

\* ----------------------------------------------------------------- C16
\* C16 as stated: a response without a Location header makes prepare fail
\* with ServerError whatever its body contains, and SdpError is returned
\* only for a body that is not a valid answer.
C16_MissingLocationIsServerError ==
    ccall.op = "prepare" =>
        /\ (ccall.resp.sendOk /\ ~ccall.resp.hasLocation) =>
              ccall.ret = Err("ServerError")
        /\ ccall.ret = Err("SdpError") =>
              (~ccall.resp.sdpOk \/ ~ccall.resp.acceptOk)

\* C16, amended: the body is parsed before the Location header is looked
\* at.  A response whose body cannot be parsed makes prepare fail with
\* SdpError, with or without a Location header; a response without a
\* Location header whose body parses makes it fail with ServerError;
\* SdpError is returned only for a body that cannot be parsed or an answer
\* the engine rejects.
C16_NegotiationErrors ==
    (ccall.op = "prepare" /\ ccall.resp.sendOk /\ ccall.resp.textOk) =>
        /\ ~ccall.resp.sdpOk => ccall.ret = Err("SdpError")
        /\ (ccall.resp.sdpOk /\ ~ccall.resp.hasLocation) =>
              ccall.ret = Err("ServerError")
        /\ ccall.ret = Err("SdpError") =>
              (~ccall.resp.sdpOk \/ ~ccall.resp.acceptOk)

\* prepare has failed on a response with no Location header and a body
\* that parses.
C16_Witness ==
    /\ ccall.op = "prepare"
    /\ ccall.resp.sendOk /\ ccall.resp.textOk /\ ccall.resp.sdpOk
    /\ ~ccall.resp.hasLocation
    /\ ccall.ret = Err("ServerError")

\* ----------------------------------------------------------------- C17
\* C17 as stated: a socket error during the wait ends the loop, the task
\* emitting Disconnected(id); a wait that times out always has recv return
\* Continue and the loop go on.
C17_TimeoutAlwaysContinues ==
    [][\A i \in Ids :
         /\ WaitSocketErr(i) =>
               /\ pc'[i] = "ended"
               /\ exit'[i] = "network_err"
               /\ events' = Append(events, Disconnected(i))
         /\ WaitTimeout(i) =>
               /\ pc'[i] = "loop"
               /\ events' = events]_vars

\* C17, amended: a socket error during the wait makes recv return
\* NetworkError and the task leave the loop and emit Disconnected(id).  A
\* wait that times out feeds a Timeout to the engine: if the engine accepts
\* it recv returns Continue and the loop goes on, if the engine rejects it
\* recv returns WebrtcError and the task leaves the loop and emits
\* Disconnected(id).
C17_WaitOutcome ==
    [][\A i \in Ids :
         /\ WaitSocketErr(i) =>
               /\ pc'[i] = "ended"
               /\ exit'[i] = "network_err"
               /\ events' = Append(events, Disconnected(i))
         /\ WaitTimeout(i) =>
               \/ /\ pc'[i] = "loop"
                  /\ exit' = exit
                  /\ events' = events
               \/ /\ pc'[i] = "ended"
                  /\ exit'[i] = "webrtc_err"
                  /\ events' = Append(events, Disconnected(i))]_vars

\* A session was ended by a socket error and has emitted Disconnected.
C17_Witness ==
    \E i \in Ids :
        /\ exit[i] = "network_err"
        /\ KindsOf(i)[Len(KindsOf(i))] = "Disconnected"

\* ----------------------------------------------------------------- C18
\* C18: when the send of a packet the engine asked to transmit fails, recv
\* returns Continue, no error is surfaced, the client is left as it was
\* and the session task goes round its loop again.
C18_SendFailureIgnored ==
    (ccall.op = "recv" /\ ccall.in.out = "Transmit" /\ ~ccall.in.sendOk) =>
        /\ ccall.ret = Ok("Continue")
        /\ TaskReact(ccall.ret) = "continue"
        /\ cl = ccall.before

\* recv has returned from an Output::Transmit whose send failed.
C18_Witness ==
    /\ ccall.op = "recv"
    /\ ccall.in.out = "Transmit"
    /\ ~ccall.in.sendOk
    /\ ccall.ret = Ok("Continue")
    /\ cl.alive

\* ----------------------------------------------------------------- C19
\* C19: when a byte counter reported with PeerStats is lower than the one
\* stored from the previous sample, the rate in the Stats event is zero:
\* the subtraction neither wraps around nor panics.
C19_NegativeDeltaClamped ==
    (/\ ccall.op = "recv"
     /\ ccall.in.out = "PeerStats"
     /\ ccall.at > ccall.before.pre_ts
     /\ ccall.in.tx < ccall.before.pre_send_bytes
     /\ ccall.in.rx >= ccall.before.pre_recv_bytes) =>
        /\ ccall.ret.tag = "Ok"
        /\ ccall.ret.val = "Stats"
        /\ ccall.ret.stats.send_kbps = [tag |-> "ok", value |-> 0]
        /\ cl.alive

\* ----------------------------------------------------------------- C20
\* C20: bootstrap never waits for a session task.  Whatever the sessions
\* are doing, bootstrap can take its next step unless it has returned or
\* its interval sleep is still running; so Connecting(k+1) can be emitted
\* while session k is negotiating or running.
C20_FireAndForget ==
    ENABLED Bootstrap <=> ~(rpc = "done" \/ (rpc = "sleep" /\ sleepLeft > 0))

\* Connecting(2) has been emitted while session 1 is negotiating or in its
\* drive loop.
C20_Witness ==
    /\ CountEv(Connecting(2)) = 1
    /\ pc[1] \in {"prepare", "loop", "wait"}

\* ----------------------------------------------------------------- C21
\* C21: whenever prepare returns an error, a failure to apply the answer to
\* the engine included, the client's location is still None.
C21_LocationNoneAfterFailedPrepare ==
    (ccall.op = "prepare" /\ ccall.ret.tag = "Err") =>
        /\ ccall.before.location = <<>>
        /\ cl.location = <<>>

\* ----------------------------------------------------------------- C22
\* The position of the last occurrence of ev in seq, 0 if there is none.
LastIndex(seq, ev) ==
    LET at == {k \in 1..Len(seq) : seq[k] = ev} IN
    IF at = {} THEN 0 ELSE CHOOSE k \in at : \A m \in at : m <= k

\* The ids with a Connecting in seq and no Disconnected after it.
ConnectingNotDisconnected(seq) ==
    {i \in DashIds :
        LastIndex(seq, Connecting(i)) > LastIndex(seq, Disconnected(i))}

\* C22: after the dashboard has consumed any prefix of the event stream,
\* the keys of AppState.clients are exactly the ids for which a Connecting
\* was received and no Disconnected after it; a Connected or Stats event
\* for an id that is not in the map changes nothing; and
\* clients_connected() <= clients_sum() in every state.
C22_DashboardAggregator ==
    /\ [](/\ DOMAIN clients = ConnectingNotDisconnected(received)
          /\ clients_connected(clients) <= clients_sum(clients))
    /\ [][\A ev \in BenchEvents :
            (/\ received' = Append(received, ev)
             /\ ev[1] \in {"Connected", "Stats"}
             /\ ev[2] \notin DOMAIN clients) => clients' = clients]_vars

\* The dashboard has just consumed a Stats event for an id it had added and
\* removed again, while another id is still in the map.
C22_Witness ==
    /\ Len(received) >= 3
    /\ LET last == received[Len(received)] IN
         /\ last[1] = "Stats"
         /\ last[2] \notin DOMAIN clients
         /\ LastIndex(received, Disconnected(last[2]))
              > LastIndex(received, Connecting(last[2]))
         /\ LastIndex(received, Connecting(last[2])) > 0
    /\ clients_sum(clients) >= 1
====
